---- MODULE Spec2Model ----
(***************************************************************************)
(* Model of icloud-s3-backup.py: a click command that prunes objects older *)
(* than MAX_RETENTION_DAYS from an S3 bucket, tars a local folder, uploads *)
(* the archive, prints a summary and removes the local archive.  Every     *)
(* exception raised below main is turned into click.Abort by handle_errors.*)
(*                                                                         *)
(* Time is counted in whole days since 1 January of EpochYear, on the      *)
(* Gregorian calendar; the local                                           *)
(* clock (archive name) and the UTC clock (cutoff, LastModified) are the   *)
(* same clock.  The command is run twice in a row (Runs), the second run   *)
(* on the bucket and working directory the first one left behind.          *)
(*                                                                         *)
(* The locals of delete_old_backups and of create_backup_archive stay in   *)
(* the state, for inspection, until the next callee has started; then they *)
(* are gone, as they are in the program.                                   *)
(***************************************************************************)
EXTENDS Integers, Sequences, FiniteSets, TLC

VARIABLES
    run,            \* which invocation of the command this is
    pc,             \* position in main and its callees
    now,            \* the clock, in days
    elapsed,        \* days that passed since this run started
    folder,         \* <LOCAL_FOLDER> as spelled on the command line
    cwd,            \* the working directory, a real path
    removedByEnv,   \* something other than the command removed the archive in this run
    store,          \* the bucket: a set of [key, lastModified]
    disk,           \* names of the archive files present in the working directory
    tree,           \* the user's files under folder, paths relative to folder
    disk0,          \* disk as this run found it
    cutoff,         \* delete_old_backups: cutoff
    scanDay,        \* the day delete_old_backups read the clock in this run
    snapshot,       \* the bucket as it was when delete_old_backups started
    unlisted,       \* delete_old_backups: objects the paginator has yet to return
    more,           \* delete_old_backups: the paginator has another page
    to_delete,      \* delete_old_backups: to_delete
    delIdx,         \* delete_old_backups: keys of to_delete already iterated
    deleted,        \* keys whose delete_object call succeeded in this run
    calls,          \* store calls issued in this run, by operation
    archive_name,   \* create_backup_archive: archive_name
    total_files,    \* create_backup_archive: total_files
    pending,        \* create_backup_archive: files the second walk has yet to yield
    entries,        \* members of the tar file being written: arcname -> count
    ticks,          \* create_backup_archive: sum of pbar.update(1)
    trace,          \* stages completed in this run, in order
    summary,        \* what print_summary echoed in this run
    err,            \* the exception handle_errors reported in this run
    exitCode,       \* process exit status of this run, -1 while running
    builtOn,        \* what datetime.now() gave create_backup_archive in this run
    prev            \* outcome of the previous run

vars == <<run, pc, now, elapsed, folder, cwd, removedByEnv, store, disk, disk0, tree, cutoff,
          scanDay, snapshot,
          unlisted, more, to_delete, delIdx, deleted, calls, archive_name, total_files,
          pending, entries, ticks, trace, summary, err, exitCode, builtOn, prev>>

-----------------------------------------------------------------------------
(* Bounds and inputs *)

MaxPages == 2
MaxTicks == 1
StartDay == 120
EpochYear == 2024

Runs == {1, 2}
Gaps == {0, 92}
OldKeys == {"old1", "old2"}
Bucket == "bucket"
\* paths are sequences of components; Link is a symbolic link to Target
Target == <<"/", "home", "docs">>
Link == <<"/", "home", "link">>
\* <LOCAL_FOLDER> is spelled directly or through the link; the working directory
\* is the folder, a subdirectory of it, or outside it
Folders == {Target, Link}
Cwds == {Target, Target \o <<"sub">>, <<"/", "tmp">>}
Trees == {{}, {<<"a.txt">>, <<"sub", "b.txt">>},
          {<<"a.txt">>, <<"p", "b.txt">>, <<"p", "q", "c.txt">>, <<"r", "d.txt">>}}

(* Program constants *)

MAX_RETENTION_DAYS == 90
AbortStatus == 1

-----------------------------------------------------------------------------
(* Calendar: datetime.now().strftime("%B-%Y") *)

IsLeap(y) == (y % 4 = 0 /\ y % 100 # 0) \/ y % 400 = 0
MonthLen(y) == <<31, IF IsLeap(y) THEN 29 ELSE 28, 31, 30, 31, 30, 31, 31, 30, 31, 30, 31>>
MonthNames == <<"January", "February", "March", "April", "May", "June", "July",
                "August", "September", "October", "November", "December">>

RECURSIVE DaysBefore(_, _)
DaysBefore(y, m) == IF m = 1 THEN 0 ELSE DaysBefore(y, m - 1) + MonthLen(y)[m - 1]

YearLen(y) == DaysBefore(y, 12) + MonthLen(y)[12]

\* the date of day d, counted from 1 January of year y
RECURSIVE DateFrom(_, _)
DateFrom(y, d) ==
    IF d >= YearLen(y) THEN DateFrom(y + 1, d - YearLen(y))
    ELSE LET m == CHOOSE k \in 1..12 :
                      DaysBefore(y, k) <= d /\ d < DaysBefore(y, k) + MonthLen(y)[k]
         IN  [year |-> y, month |-> m, day |-> d - DaysBefore(y, m) + 1]

\* datetime.now(): the clock reading d as a date
Today(d) ==
    LET date == DateFrom(EpochYear, d)
    IN  [at |-> d, year |-> date.year, month |-> date.month, day |-> date.day]

NoDate == [at |-> -1, year |-> 0, month |-> 0, day |-> 0]

ArchiveNameDaily(date) ==
    ToString(date.day) \o "-" \o MonthNames[date.month] \o "-" \o ToString(date.year) \o ".tar"

\* strftime("%B-%Y") and the ".tar" suffix
ArchiveName(date) == MonthNames[date.month] \o "-" \o ToString(date.year) \o ".tar"

-----------------------------------------------------------------------------
(* Paths *)

Join(root, rel) == root \o rel
Relpath(path, start) == SubSeq(path, Len(start) + 1, Len(path))
Basename(path) == path[Len(path)]
IsAbsolute(path) == Len(path) > 0 /\ path[1] = "/"

\* create_backup_archive returns the bare archive_name: a one-component relative path
ArchivePath(name) == <<name>>

IsPrefix(a, b) == Len(a) <= Len(b) /\ SubSeq(b, 1, Len(a)) = a

\* os.path.abspath: anchors a relative path at the working directory; it does not
\* resolve symbolic links
Abspath(path) == IF IsAbsolute(path) THEN path ELSE Join(cwd, path)

\* where a path leads once symbolic links are followed
Realpath(path) ==
    IF IsPrefix(Link, path) THEN Target \o SubSeq(path, Len(Link) + 1, Len(path)) ELSE path

\* what os.walk(folder) yields as files, relative to folder: the user's files and,
\* when the working directory is the folder or lies below it, the archive files there
WalkFiles(t, d) ==
    t \cup (IF IsPrefix(Realpath(folder), cwd)
            THEN {Relpath(Join(cwd, ArchivePath(n)), Realpath(folder)) : n \in d}
            ELSE {})

\* the directory a file of the tree lies in, relative to the folder
Dirname(f) == SubSeq(f, 1, Len(f) - 1)

\* the files the second os.walk may yield next, out of all it finds, when those of
\* left are yet to come. The walk is top-down and depth-first: a directory's own
\* files come before anything below it, and a subdirectory the walk has entered is
\* finished, with all below it, before a sibling directory starts. The order of a
\* directory's files, and of sibling directories, is the file system's.
WalkNext(all, left) ==
    {f \in left :
        /\ \A g \in left : Dirname(g) = Dirname(f) \/ ~IsPrefix(Dirname(g), Dirname(f))
        /\ \A g \in all \ left : \A h \in left : \A k \in 0..Len(Dirname(g)) :
              IsPrefix(SubSeq(Dirname(g), 1, k), Dirname(h))
                  => IsPrefix(SubSeq(Dirname(g), 1, k), Dirname(f))}

-----------------------------------------------------------------------------
(* Store *)

Keys(objs) == {o.key : o \in objs}
Put(objs, k, t) == {o \in objs : o.key # k} \cup {[key |-> k, lastModified |-> t]}
Remove(objs, k) == {o \in objs : o.key # k}

\* the pages list_objects_v2 may return next: any part of what is left, the
\* whole of it when the page is the last one; an empty page has no 'Contents'
NextPages(left, last) == IF last THEN {left} ELSE SUBSET left

Orderings(S) ==
    {s \in [1..Cardinality(S) -> S] : \A i, j \in 1..Cardinality(S) : i # j => s[i] # s[j]}

IsStaleInclusive(obj, c) == obj.lastModified <= c

IsStale(obj, c) == obj.lastModified < c

Range(s) == {s[i] : i \in 1..Len(s)}

-----------------------------------------------------------------------------
NoErr == [stage |-> "none", kind |-> "none"]
NoPrev == [ran |-> FALSE, archive_name |-> "", builtOn |-> NoDate,
           uploaded |-> FALSE]
NoCalls == [list |-> 0, delete |-> 0, upload |-> 0]
NoSummary == [printed |-> FALSE]

Terminal == pc \in {"done", "aborted"}

Init ==
    /\ run = 1
    /\ pc = "init"
    /\ now = StartDay
    /\ elapsed = 0
    /\ folder \in Folders
    /\ cwd \in Cwds
    /\ removedByEnv = FALSE
    /\ \E ages \in [OldKeys -> {0, MAX_RETENTION_DAYS - 1, MAX_RETENTION_DAYS,
                                MAX_RETENTION_DAYS + 1}] :
          \* age 0: the key is not in the bucket
          /\ store = {[key |-> k, lastModified |-> StartDay - ages[k]] :
                         k \in {x \in OldKeys : ages[x] # 0}}
    /\ disk = {}
    /\ disk0 = {}
    /\ tree = {}
    /\ cutoff = 0
    /\ scanDay = -1
    /\ snapshot = {}
    /\ unlisted = {}
    /\ more = FALSE
    /\ to_delete = <<>>
    /\ delIdx = 0
    /\ deleted = {}
    /\ calls = NoCalls
    /\ archive_name = ""
    /\ total_files = 0
    /\ pending = {}
    /\ entries = <<>>
    /\ ticks = 0
    /\ trace = <<>>
    /\ summary = NoSummary
    /\ err = NoErr
    /\ exitCode = -1
    /\ builtOn = NoDate
    /\ prev = NoPrev

-----------------------------------------------------------------------------
(* main: the order of the calls, and how control leaves each of them *)

MainOrderCleanupFirst == <<"SESSION", "PRUNE", "BUILD", "UPLOAD", "CLEANUP_LOCAL", "SUMMARY">>

MainOrder == <<"SESSION", "PRUNE", "BUILD", "UPLOAD", "SUMMARY", "CLEANUP_LOCAL">>

Entry(stage) ==
    CASE stage = "SESSION" -> "init"
      [] stage = "PRUNE" -> "scan"
      [] stage = "BUILD" -> "count"
      [] stage = "UPLOAD" -> "upload"
      [] stage = "SUMMARY" -> "summary"
      [] stage = "CLEANUP_LOCAL" -> "clear"

Position(stage) == CHOOSE i \in 1..Len(MainOrder) : MainOrder[i] = stage

\* the callee returns normally: main goes on to its next statement, or returns
Return(stage) ==
    /\ trace' = Append(trace, stage)
    /\ err' = err
    /\ IF Position(stage) = Len(MainOrder)
       THEN pc' = "done" /\ exitCode' = 0
       ELSE pc' = Entry(MainOrder[Position(stage) + 1]) /\ exitCode' = exitCode

RaiseSwallowed(stage, kind) ==
    /\ err' = [stage |-> stage, kind |-> kind]
    /\ trace' = trace
    /\ IF Position(stage) = Len(MainOrder)
       THEN pc' = "done" /\ exitCode' = 0
       ELSE pc' = Entry(MainOrder[Position(stage) + 1]) /\ exitCode' = exitCode

\* handle_errors: any exception below main is echoed and re-raised as click.Abort
Raise(stage, kind) ==
    /\ err' = [stage |-> stage, kind |-> kind]
    /\ trace' = trace
    /\ pc' = "aborted"
    /\ exitCode' = AbortStatus

\* control stays inside the current callee
Step(p) == pc' = p /\ UNCHANGED <<trace, err, exitCode>>

EnvVars == <<run, folder, cwd, removedByEnv, prev, disk0>>
ClockVars == <<now, elapsed>>
PruneVars == <<cutoff, scanDay, snapshot, unlisted, more, to_delete, delIdx>>
BuildVars == <<tree, archive_name, total_files, pending, entries, ticks, builtOn>>

-----------------------------------------------------------------------------
(* initialize_aws_session: the profile is found and the client made, or the       *)
(* profile is not found, or making the session or client fails otherwise         *)

InitSessionIgnoringProfile ==
    /\ pc = "init"
    /\ \E outcome \in {"ok", "ProfileNotFound", "session.client"} :
          /\ IF outcome = "ok" THEN Return("SESSION") ELSE RaiseSwallowed("SESSION", outcome)
          /\ UNCHANGED <<EnvVars, ClockVars, PruneVars, BuildVars, store, disk, deleted,
                         calls, summary>>

InitSession ==
    /\ pc = "init"
    /\ \E outcome \in {"ok", "ProfileNotFound", "session.client"} :
          /\ IF outcome = "ok" THEN Return("SESSION") ELSE Raise("SESSION", outcome)
          /\ UNCHANGED <<EnvVars, ClockVars, PruneVars, BuildVars, store, disk, deleted,
                         calls, summary>>

-----------------------------------------------------------------------------
(* delete_old_backups *)

Scan ==
    /\ pc = "scan"
    /\ cutoff' = now - MAX_RETENTION_DAYS
    /\ scanDay' = now
    /\ snapshot' = store
    /\ to_delete' = <<>>
    /\ delIdx' = 0
    /\ unlisted' = store
    /\ more' = TRUE
    /\ Step("list")
    /\ UNCHANGED <<EnvVars, ClockVars, BuildVars, store, disk, deleted, calls, summary>>

StaleKeys(page, c) == {o.key : o \in {x \in page : IsStale(x, c)}}

ListPageFirstOnly ==
    /\ pc = "list"
    /\ IF ~more
       THEN /\ Step("decide")
            /\ UNCHANGED <<unlisted, more, to_delete, calls>>
       ELSE /\ calls' = [calls EXCEPT !.list = @ + 1]
            /\ \E ok \in BOOLEAN, last \in {calls.list + 1 = MaxPages, TRUE} :
                  IF ok
                  THEN /\ \E page \in NextPages(unlisted, last) :
                             /\ \E ord \in Orderings(StaleKeys(page, cutoff)) :
                                   to_delete' = to_delete \o ord
                             /\ unlisted' = unlisted \ page
                       /\ more' = FALSE
                       /\ Step("list")
                  ELSE /\ Raise("PRUNE", "list_objects_v2")
                       /\ UNCHANGED <<unlisted, more, to_delete>>
    /\ UNCHANGED <<EnvVars, ClockVars, BuildVars, cutoff, scanDay, snapshot, delIdx, store,
                   disk, deleted, summary>>

\* one iteration of `for page in paginator.paginate(...)`, or the end of the loop
ListPage ==
    /\ pc = "list"
    /\ IF ~more
       THEN /\ Step("decide")
            /\ UNCHANGED <<unlisted, more, to_delete, calls>>
       ELSE /\ calls' = [calls EXCEPT !.list = @ + 1]
            /\ \E ok \in BOOLEAN, last \in {calls.list + 1 = MaxPages, TRUE} :
                  IF ok
                  THEN /\ \E page \in NextPages(unlisted, last) :
                             /\ \E ord \in Orderings(StaleKeys(page, cutoff)) :
                                   to_delete' = to_delete \o ord
                             /\ unlisted' = unlisted \ page
                       /\ more' = ~last
                       /\ Step("list")
                  ELSE /\ Raise("PRUNE", "list_objects_v2")
                       /\ UNCHANGED <<unlisted, more, to_delete>>
    /\ UNCHANGED <<EnvVars, ClockVars, BuildVars, cutoff, scanDay, snapshot, delIdx, store,
                   disk, deleted, summary>>

\* `if not to_delete: ... return`
CheckEmpty ==
    /\ pc = "decide"
    /\ IF to_delete = <<>> THEN Return("PRUNE") ELSE Step("delete")
    /\ UNCHANGED <<EnvVars, ClockVars, PruneVars, BuildVars, store, disk, deleted, calls,
                   summary>>

DeleteNextKeepGoing ==
    /\ pc = "delete"
    /\ IF delIdx = Len(to_delete)
       THEN /\ Return("PRUNE")
            /\ UNCHANGED <<delIdx, store, deleted, calls>>
       ELSE /\ calls' = [calls EXCEPT !.delete = @ + 1]
            /\ delIdx' = delIdx + 1
            /\ \E ok \in BOOLEAN :
                  IF ok
                  THEN /\ store' = Remove(store, to_delete[delIdx + 1])
                       /\ deleted' = deleted \cup {to_delete[delIdx + 1]}
                       /\ Step("delete")
                  ELSE /\ err' = [stage |-> "PRUNE", kind |-> "delete_object"]
                       /\ pc' = "delete"
                       /\ UNCHANGED <<store, deleted, trace, exitCode>>
    /\ UNCHANGED <<EnvVars, ClockVars, BuildVars, cutoff, scanDay, snapshot, unlisted, more,
                   to_delete, disk, summary>>

\* one iteration of `for key in items: s3_client.delete_object(...)`
DeleteNext ==
    /\ pc = "delete"
    /\ IF delIdx = Len(to_delete)
       THEN /\ Return("PRUNE")
            /\ UNCHANGED <<delIdx, store, deleted, calls>>
       ELSE /\ calls' = [calls EXCEPT !.delete = @ + 1]
            /\ delIdx' = delIdx + 1
            /\ \E ok \in BOOLEAN :
                  IF ok
                  THEN /\ store' = Remove(store, to_delete[delIdx + 1])
                       /\ deleted' = deleted \cup {to_delete[delIdx + 1]}
                       /\ Step("delete")
                  ELSE /\ Raise("PRUNE", "delete_object")
                       /\ UNCHANGED <<store, deleted>>
    /\ UNCHANGED <<EnvVars, ClockVars, BuildVars, cutoff, scanDay, snapshot, unlisted, more,
                   to_delete, disk, summary>>

-----------------------------------------------------------------------------
(* create_backup_archive *)

\* the name, and the first os.walk that sums the file counts
CountFiles ==
    /\ pc = "count"
    /\ builtOn' = Today(now)
    /\ archive_name' = ArchiveName(builtOn')
    /\ \E t \in Trees :
          /\ tree' = t
          /\ total_files' = Cardinality(WalkFiles(t, disk))
    /\ Step("open")
    /\ cutoff' = 0
    /\ scanDay' = -1
    /\ snapshot' = {}
    /\ unlisted' = {}
    /\ more' = FALSE
    /\ to_delete' = <<>>
    /\ delIdx' = 0
    /\ deleted' = {}
    /\ UNCHANGED <<EnvVars, ClockVars, pending, entries, ticks, store, disk, calls, summary>>

\* tarfile.open(archive_name, "x") would refuse a name that exists
TarOpenExclusive(name, d) == IF name \in d THEN "FileExistsError" ELSE "ok"

\* tarfile.open(archive_name, "w"): creates the file, or truncates the one there
TarOpen(name, d) == "ok"

OpenArchive ==
    /\ pc = "open"
    /\ \E ok \in BOOLEAN :
          IF ok /\ TarOpen(archive_name, disk) = "ok"
          THEN /\ disk' = disk \cup {archive_name}
               /\ entries' = <<>>
               /\ ticks' = 0
               /\ pending' = WalkFiles(tree, disk')
               /\ Step("add")
          ELSE /\ Raise("BUILD", IF ok THEN TarOpen(archive_name, disk) ELSE "tarfile.open")
               /\ UNCHANGED <<disk, entries, ticks, pending>>
    /\ UNCHANGED <<EnvVars, ClockVars, PruneVars, tree, archive_name, total_files, builtOn,
                   store, deleted, calls, summary>>

\* os.path.abspath(name) == self.name: the two spellings are compared
IsArchiveItself(full_path) == Abspath(full_path) = Abspath(ArchivePath(archive_name))

\* tar.add(full_path, arcname=arcname); TarFile.add skips the archive's own file
\* when it is named by the path the archive was opened under
TarAdd(ents, full_path, arcname) ==
    IF IsArchiveItself(full_path) THEN ents
    ELSE IF arcname \in DOMAIN ents THEN [ents EXCEPT ![arcname] = @ + 1]
    ELSE [a \in DOMAIN ents \cup {arcname} |-> IF a = arcname THEN 1 ELSE ents[a]]

\* one file of the second os.walk, in the walk's top-down depth-first order: tar.add
\* stores it, skips it (the archive's own file, before it touches the file), or
\* fails. At the end of the walk the with block closes the archive, which writes
\* the end of the archive and can fail as well; otherwise the name is returned.
AddFile ==
    /\ pc = "add"
    /\ IF pending = {}
       THEN /\ \E closed \in BOOLEAN :
                  IF closed THEN Return("BUILD") ELSE Raise("BUILD", "tar.close")
            /\ UNCHANGED <<pending, entries, ticks>>
       ELSE \E f \in WalkNext(WalkFiles(tree, disk), pending) :
            \E ok \in IF IsArchiveItself(Join(folder, f)) THEN {TRUE} ELSE BOOLEAN :
               IF ok
               THEN /\ entries' = TarAdd(entries, Join(folder, f),
                                         Relpath(Join(folder, f), folder))
                    /\ ticks' = ticks + 1
                    /\ pending' = pending \ {f}
                    /\ Step("add")
               ELSE /\ Raise("BUILD", "tar.add")
                    /\ UNCHANGED <<pending, entries, ticks>>
    /\ UNCHANGED <<EnvVars, ClockVars, PruneVars, tree, archive_name, total_files, builtOn,
                   store, disk, deleted, calls, summary>>

-----------------------------------------------------------------------------
(* upload_to_s3, print_summary, clear_tmp_files *)

\* file_size = os.path.getsize(file_path)
UploadGetSize ==
    /\ pc = "upload"
    /\ IF archive_name \notin disk
       THEN Raise("UPLOAD", "os.path.getsize")
       ELSE Step("transfer")
    /\ tree' = {}
    /\ total_files' = 0
    /\ pending' = {}
    /\ entries' = <<>>
    /\ ticks' = 0
    /\ UNCHANGED <<EnvVars, ClockVars, PruneVars, archive_name, builtOn, store, disk,
                   deleted, calls, summary>>

UploadToS3ThenCleanup ==
    /\ pc = "transfer"
    /\ calls' = [calls EXCEPT !.upload = @ + 1]
    /\ \E ok \in {archive_name \in disk, FALSE} :
          IF ok
          THEN /\ store' = Put(store, Basename(ArchivePath(archive_name)), now)
               /\ Return("UPLOAD")
               /\ disk' = disk
          ELSE /\ Raise("UPLOAD", "upload_file")
               /\ disk' = disk \ {archive_name}
               /\ UNCHANGED store
    /\ UNCHANGED <<EnvVars, ClockVars, PruneVars, BuildVars, deleted, summary>>

\* s3_client.upload_file(...): fails when the file is gone, or on the store's side
UploadToS3 ==
    /\ pc = "transfer"
    /\ calls' = [calls EXCEPT !.upload = @ + 1]
    /\ \E ok \in {archive_name \in disk, FALSE} :
          IF ok
          THEN /\ store' = Put(store, Basename(ArchivePath(archive_name)), now)
               /\ Return("UPLOAD")
          ELSE /\ Raise("UPLOAD", "upload_file")
               /\ UNCHANGED store
    /\ UNCHANGED <<EnvVars, ClockVars, PruneVars, BuildVars, disk, deleted, summary>>

PrintSummary ==
    /\ pc = "summary"
    /\ IF archive_name \notin disk
       THEN /\ Raise("SUMMARY", "os.path.getsize")
            /\ UNCHANGED summary
       ELSE /\ summary' = [printed |-> TRUE, folder |-> folder,
                           location |-> <<"s3", Bucket, Basename(ArchivePath(archive_name))>>]
            /\ Return("SUMMARY")
    /\ UNCHANGED <<EnvVars, ClockVars, PruneVars, BuildVars, store, disk, deleted, calls>>

ClearTmpFilesIgnoringErrors ==
    /\ pc = "clear"
    /\ disk' = disk \ {archive_name}
    /\ IF archive_name \notin disk
       THEN RaiseSwallowed("CLEANUP_LOCAL", "os.remove")
       ELSE Return("CLEANUP_LOCAL")
    /\ UNCHANGED <<EnvVars, ClockVars, PruneVars, BuildVars, store, deleted, calls, summary>>

ClearTmpFiles ==
    /\ pc = "clear"
    /\ IF archive_name \notin disk
       THEN /\ Raise("CLEANUP_LOCAL", "os.remove")
            /\ UNCHANGED disk
       ELSE /\ disk' = disk \ {archive_name}
            /\ Return("CLEANUP_LOCAL")
    /\ UNCHANGED <<EnvVars, ClockVars, PruneVars, BuildVars, store, deleted, calls, summary>>

-----------------------------------------------------------------------------
(* Environment *)

\* something else removes the archive file once it has been built
EnvRemoveArchive ==
    /\ pc \in {"upload", "transfer", "summary", "clear"}
    /\ archive_name \in disk
    /\ disk' = disk \ {archive_name}
    /\ removedByEnv' = TRUE
    /\ UNCHANGED <<run, folder, cwd, prev, disk0, ClockVars, PruneVars, BuildVars, pc,
                   store, deleted, calls, trace, summary, err, exitCode>>

\* a day passes while the command runs
Tick ==
    /\ ~Terminal
    /\ elapsed < MaxTicks
    /\ now' = now + 1
    /\ elapsed' = elapsed + 1
    /\ UNCHANGED <<EnvVars, PruneVars, BuildVars, pc, store, disk, deleted, calls, trace,
                   summary, err, exitCode>>

\* the command is invoked again, some days later, on what the last run left
NextRun ==
    /\ Terminal
    /\ run + 1 \in Runs
    /\ run' = run + 1
    /\ \E gap \in Gaps : now' = now + gap
    /\ elapsed' = 0
    /\ prev' = [ran |-> TRUE, archive_name |-> archive_name,
                builtOn |-> builtOn, uploaded |-> calls.upload > 0 /\ err.kind # "upload_file"]
    /\ pc' = "init"
    /\ cutoff' = 0
    /\ scanDay' = -1
    /\ snapshot' = {}
    /\ disk0' = disk
    /\ unlisted' = {}
    /\ more' = FALSE
    /\ to_delete' = <<>>
    /\ delIdx' = 0
    /\ deleted' = {}
    /\ calls' = NoCalls
    /\ tree' = {}
    /\ archive_name' = ""
    /\ total_files' = 0
    /\ pending' = {}
    /\ entries' = <<>>
    /\ ticks' = 0
    /\ builtOn' = NoDate
    /\ trace' = <<>>
    /\ summary' = NoSummary
    /\ err' = NoErr
    /\ exitCode' = -1
    /\ removedByEnv' = FALSE
    /\ UNCHANGED <<folder, cwd, store, disk>>

Next ==
    \/ InitSession
    \/ Scan
    \/ ListPage
    \/ CheckEmpty
    \/ DeleteNext
    \/ CountFiles
    \/ OpenArchive
    \/ AddFile
    \/ UploadGetSize
    \/ UploadToS3
    \/ PrintSummary
    \/ ClearTmpFiles
    \/ EnvRemoveArchive
    \/ Tick
    \/ NextRun

Spec == Init /\ [][Next]_vars

TypeOK ==
    /\ run \in Runs
    /\ pc \in {"init", "scan", "list", "decide", "delete", "count", "open", "add",
               "upload", "transfer", "summary", "clear", "done", "aborted"}
    /\ exitCode \in {-1, 0, AbortStatus}
    /\ delIdx \in 0..Len(to_delete)
    /\ \A o, p \in store : o.key = p.key => o = p

-----------------------------------------------------------------------------
(* Properties *)

Scanned == scanDay # -1
Fresh(o) == o.lastModified >= scanDay - MAX_RETENTION_DAYS
AllFresh == \A o \in snapshot : Fresh(o)
SameMonth(d, e) == d.month = e.month /\ d.year = e.year
Completed(stage) == stage \in Range(trace)

\* C1: when delete_old_backups returns normally it has deleted exactly the keys of
\* the objects whose lastModified is before the cutoff taken when the pass started,
\* whatever pages they were listed on, and every other object is still in the bucket.
C1_PruneDeletesExactlyStale ==
    pc = "count" =>
        /\ deleted = {o.key : o \in {x \in snapshot : x.lastModified < scanDay - MAX_RETENTION_DAYS}}
        /\ store = {x \in snapshot : x.lastModified >= scanDay - MAX_RETENTION_DAYS}
        /\ calls.delete = Cardinality(deleted)

C1_Witness ==
    /\ pc = "count"
    /\ calls.list >= 2
    /\ deleted # {}
    /\ store # {}
    /\ now > scanDay

\* C2 as stated: a run without failure completes its stages in the order PRUNE,
\* BUILD, UPLOAD, CLEANUP_LOCAL, SUMMARY.
C2_SummaryAfterCleanup ==
    pc = "done" =>
        LET NotSession(st) == st # "SESSION"
        IN  SelectSeq(trace, NotSession) = <<"PRUNE", "BUILD", "UPLOAD", "CLEANUP_LOCAL", "SUMMARY">>

\* C2 amended: the stages complete once each in the order session, PRUNE, BUILD,
\* UPLOAD, SUMMARY, CLEANUP_LOCAL; the stage in progress is the one after the last
\* completed one; the summary is printed after the upload and before the local
\* archive is removed.
C2_StagesInMainOrder ==
    LET order == <<"SESSION", "PRUNE", "BUILD", "UPLOAD", "SUMMARY", "CLEANUP_LOCAL">>
        pcs == <<{"init"}, {"scan", "list", "decide", "delete"}, {"count", "open", "add"},
                 {"upload", "transfer"}, {"summary"}, {"clear"}>>
    IN  /\ Len(trace) <= Len(order)
        /\ trace = SubSeq(order, 1, Len(trace))
        /\ (pc = "done") = (trace = order)
        /\ pc = "done" => exitCode = 0
        /\ ~Terminal => pc \in pcs[Len(trace) + 1]
        /\ summary.printed = Completed("SUMMARY")
        /\ pc = "summary" => archive_name \in Keys(store) /\ ~(summary.printed)
        /\ Completed("CLEANUP_LOCAL") => summary.printed /\ archive_name \notin disk

C2_Witness ==
    /\ pc = "done"
    /\ Len(trace) = 6
    /\ trace[5] = "SUMMARY"
    /\ trace[6] = "CLEANUP_LOCAL"

\* C3 as stated: when removing the local archive fails after the upload, the run
\* still ends in DONE with exit status 0.
C3_CleanupFailureKeepsSuccess ==
    err.stage = "CLEANUP_LOCAL" => pc = "done" /\ exitCode = 0

\* C3 amended: when removing the local archive fails after the upload, the failure
\* is reported and the run ends ABORTED with exit status 1; the uploaded object is
\* in the bucket and the summary has been printed.
C3_CleanupFailureAborts ==
    err.stage = "CLEANUP_LOCAL" =>
        /\ err.kind = "os.remove"
        /\ pc = "aborted"
        /\ exitCode = 1
        /\ Completed("UPLOAD")
        /\ summary.printed
        /\ archive_name \in Keys(store)

C3_Witness ==
    /\ err.stage = "CLEANUP_LOCAL"
    /\ pc = "aborted"
    /\ archive_name \notin disk

\* C4: a failure in session setup, PRUNE, BUILD or UPLOAD ends the run ABORTED with
\* a non-zero status, the stages before it completed and none after it ran: no
\* summary, no cleanup. When tarfile.open fails BUILD has written no file and the
\* disk is as it was; after every other failure in BUILD or UPLOAD the archive file
\* that BUILD wrote is still on disk, unless something other than the command
\* removed it.
C4_FailureAbortsAndSkipsRest ==
    LET order == <<"SESSION", "PRUNE", "BUILD", "UPLOAD">>
    IN  err.stage \in Range(order) =>
            /\ pc = "aborted"
            /\ exitCode \notin {0, -1}
            /\ \E i \in 1..Len(order) :
                  /\ order[i] = err.stage
                  /\ trace = SubSeq(order, 1, i - 1)
            /\ ~(summary.printed)
            /\ err.stage \in {"SESSION", "PRUNE"} => builtOn = NoDate /\ disk = disk0
            /\ err.stage # "UPLOAD" => calls.upload = 0
            /\ err.kind = "tarfile.open" => disk = disk0
            /\ err.stage = "BUILD" => err.kind \in {"tarfile.open", "tar.add", "tar.close"}
            /\ err.stage = "UPLOAD" => err.kind \in {"os.path.getsize", "upload_file"}
            /\ (err.stage \in {"BUILD", "UPLOAD"} /\ err.kind # "tarfile.open"
                    /\ ~removedByEnv) => archive_name \in disk

C4_Witness ==
    /\ err = [stage |-> "BUILD", kind |-> "tar.close"]
    /\ pc = "aborted"
    /\ pending = {}
    /\ ticks > 0
    /\ archive_name \in disk
    /\ archive_name \notin disk0

\* C5: when the profile is not found the run aborts with that error, having made no
\* list, delete or upload call and having created no archive file.
C5_MissingProfileTouchesNothing ==
    err.kind = "ProfileNotFound" =>
        /\ err.stage = "SESSION"
        /\ pc = "aborted"
        /\ exitCode = 1
        /\ calls = [list |-> 0, delete |-> 0, upload |-> 0]
        /\ scanDay = -1
        /\ archive_name = ""
        /\ disk = disk0
        /\ trace = <<>>

C5_Witness ==
    /\ err.kind = "ProfileNotFound"
    /\ pc = "aborted"
    /\ store # {}

\* C6: when the bucket is empty or every listed object is at or after the cutoff,
\* delete_old_backups issues no delete call and, unless the listing itself failed,
\* returns normally so that the run goes on to BUILD with the bucket untouched.
C6_NothingStaleNoDeleteCalls ==
    (Scanned /\ AllFresh) =>
        /\ calls.delete = 0
        /\ deleted = {}
        /\ pc # "delete"
        /\ pc = "decide" => to_delete = <<>>
        /\ err.stage = "PRUNE" => err.kind = "list_objects_v2"
        /\ (pc \notin {"list", "decide"} /\ err.stage # "PRUNE") =>
              Len(trace) >= 2 /\ trace[2] = "PRUNE"
        /\ pc = "count" => store = snapshot

C6_Witness ==
    /\ pc = "count"
    /\ Scanned
    /\ AllFresh
    /\ snapshot # {}
    /\ calls.delete = 0

\* C7: when a delete call fails, no delete call is issued for the keys after it, the
\* run ends ABORTED, the keys deleted before it stay deleted, and no object at or
\* after the cutoff has been deleted.
C7_DeleteFailureStopsPass ==
    err.kind = "delete_object" =>
        /\ pc = "aborted"
        /\ exitCode = 1
        /\ delIdx >= 1
        /\ calls.delete = delIdx
        /\ deleted = {to_delete[i] : i \in 1..(delIdx - 1)}
        /\ Keys(store) = Keys(snapshot) \ deleted
        /\ \A o \in snapshot : Fresh(o) => o \in store
        /\ ~Completed("PRUNE")

C7_Witness ==
    /\ err.kind = "delete_object"
    /\ delIdx >= 2
    /\ delIdx < Len(to_delete)

\* C8: a second run whose archive is built in the same calendar month as the first
\* run's gives the archive the same name; it does not fail because the name exists;
\* the first run's upload has survived the second pruning pass (the bucket holds
\* exactly one object under the key when the build starts and until the upload);
\* and once the second run has uploaded, that one object is the second upload.
C8_SameMonthRunsShareOneKey ==
    (run = 2 /\ prev.builtOn # NoDate /\ builtOn # NoDate /\ SameMonth(prev.builtOn, builtOn)) =>
        /\ archive_name = prev.archive_name
        /\ err.kind # "FileExistsError"
        /\ prev.uploaded =>
              /\ Cardinality({o \in store : o.key = prev.archive_name}) = 1
              /\ Completed("UPLOAD") =>
                    \A o \in store : o.key = prev.archive_name => o.lastModified >= builtOn.at

C8_Witness ==
    /\ run = 2
    /\ pc = "done"
    /\ prev.uploaded
    /\ SameMonth(prev.builtOn, builtOn)
    /\ prev.builtOn.day # builtOn.day
    /\ \E o \in store : o.key = archive_name /\ o.lastModified > prev.builtOn.at

\* C9 as stated: an object whose lastModified equals the cutoff is deleted by the
\* pruning pass.
C9_BoundaryObjectDeleted ==
    pc = "count" =>
        \A o \in snapshot : o.lastModified = scanDay - MAX_RETENTION_DAYS => o.key \in deleted

\* C9 amended: an object whose lastModified equals the cutoff is kept by the pruning
\* pass: no delete call is issued for it and it is still in the bucket.
C9_BoundaryObjectKept ==
    pc = "count" =>
        \A o \in snapshot :
            o.lastModified = scanDay - MAX_RETENTION_DAYS =>
                /\ o \in store
                /\ o.key \notin deleted
                /\ o.key \notin Range(to_delete)

C9_Witness ==
    /\ pc = "count"
    /\ \E o \in snapshot : o.lastModified = scanDay - MAX_RETENTION_DAYS /\ o \in store
    /\ deleted # {}

\* C10: a successful create_backup_archive leaves an archive with exactly one entry,
\* at a relative path, per file that was under the source folder when the build
\* started, and has emitted as many ticks as the precomputed total_files, also when
\* the working directory is the source folder or lies below it.
C10_ArchiveMatchesTreeAndTotal ==
    (pc = "upload" /\ Completed("BUILD")) =>
        /\ DOMAIN entries = WalkFiles(tree, disk0)
        /\ total_files = Cardinality(WalkFiles(tree, disk0))
        /\ \A a \in DOMAIN entries : entries[a] = 1 /\ ~IsAbsolute(a)
        /\ ticks = total_files
====
